---- MODULE Spec2Model ----
(***************************************************************************)
(* A model of the GFF/GTF annotation tools:                                *)
(*   - biotype_protein_coding (parse_protein_coding_bt.py): selection of   *)
(*     protein-coding genes and the gene -> transcript -> CDS hierarchy;   *)
(*   - ParseGFFinfo (ParseGffinfo.py) and ReformatGFF (Reformat2GFF.py):   *)
(*     detection of the attribute dialect and the attribute key parser.    *)
(*                                                                         *)
(* Text is a sequence of atoms.  An atom is either one punctuation or      *)
(* whitespace character (";" "," "=" a double quote, " ", tab, "?", "#",   *)
(* "|") or a maximal run of word characters ("ID", "g1", ...).  Python's   *)
(* string operations are defined on these sequences as Python computes     *)
(* them on the characters.                                                 *)
(***************************************************************************)
EXTENDS Integers, Sequences, FiniteSets, TLC

VARIABLES
    file,        \* the annotation file: a sequence of lines, each a text
    delimiter,   \* self.delimiter of ParseGFFinfo / ReformatGFF
    hier,        \* the last call on biotype_protein_coding and what it computed
    obj,         \* the ParseGFFinfo or ReformatGFF object: its class and its
                 \* self.separator, self.assigner, self.format
    call         \* the last call on the object and what it computed

vars == <<file, delimiter, hier, obj, call>>

(***************************************************************************)
(* Bounds of the model.                                                    *)
(***************************************************************************)
MaxHierLines == 4
MaxDetectLines == 2
MaxSampleSize == 2

(***************************************************************************)
(* Python string operations on texts.                                      *)
(***************************************************************************)
QUOTE == "\""
TAB == "\t"
SPACE == " "
NL == "\n"

\* str.isspace of a one-character atom
IsSpace(a) == a \in {SPACE, TAB, NL}

\* the atoms that are not word characters; every other atom matches \w+
Punctuation == {";", ",", "=", QUOTE, SPACE, TAB, NL, "?", "#", "|"}

IsWord(a) == a \notin Punctuation

\* x in s, for a one-character x
Contains(s, a) == \E i \in DOMAIN s : s[i] = a

RECURSIVE RStrip(_)
RStrip(s) ==
    IF s = <<>> THEN <<>>
    ELSE IF IsSpace(s[Len(s)]) THEN RStrip(SubSeq(s, 1, Len(s) - 1))
    ELSE s

RECURSIVE LStrip(_)
LStrip(s) ==
    IF s = <<>> THEN <<>>
    ELSE IF IsSpace(s[1]) THEN LStrip(Tail(s))
    ELSE s

Strip(s) == LStrip(RStrip(s))

\* the index of the first occurrence of atom a in s, 0 when there is none
FirstIndex(s, a) ==
    LET at == {i \in DOMAIN s : s[i] = a}
    IN  IF at = {} THEN 0 ELSE CHOOSE i \in at : \A j \in at : i <= j

\* the pieces of s from index i on, cut at every atom of the set cuts; the
\* piece being read began at index start
RECURSIVE Pieces(_, _, _, _)
Pieces(s, cuts, i, start) ==
    IF i > Len(s) THEN <<SubSeq(s, start, Len(s))>>
    ELSE IF s[i] \in cuts
    THEN <<SubSeq(s, start, i - 1)>> \o Pieces(s, cuts, i + 1, i + 1)
    ELSE Pieces(s, cuts, i + 1, start)

\* s.split(d): every occurrence of d cuts, empty pieces are kept
Split(s, d) == Pieces(s, {d}, 1, 1)

\* s.split(d, 1)[1], for a text that contains d
AfterFirst(s, d) == SubSeq(s, FirstIndex(s, d) + 1, Len(s))

\* s.split(d)[0] and s.split(d, 1)[0]
BeforeFirst(s, d) ==
    LET i == FirstIndex(s, d)
    IN  IF i = 0 THEN s ELSE SubSeq(s, 1, i - 1)

NonEmpty(s) == s # <<>>

\* s.split(): runs of whitespace cut, no empty pieces
SplitWhitespace(s) == SelectSeq(Pieces(s, {SPACE, TAB, NL}, 1, 1), NonEmpty)

\* str.lower of an atom
LowerAtom(a) ==
    CASE a = "ID" -> "id"
      [] a = "Parent" -> "parent"
      [] a = "Name" -> "name"
      [] a = "mRNA" -> "mrna"
      [] a = "CDS" -> "cds"
      [] OTHER -> a

Lower(s) == [i \in DOMAIN s |-> LowerAtom(s[i])]

\* line.startswith("#")
IsComment(l) == l # <<>> /\ l[1] = "#"

(***************************************************************************)
(* biotype_protein_coding (parse_protein_coding_bt.py)                     *)
(***************************************************************************)

\* fields = l.rstrip().split(): the line is cut at every run of whitespace
HierFields(l) == SplitWhitespace(RStrip(l))

\* the key of one "key=value" piece of the attribute column
AttrKey(kv) == Lower(Strip(BeforeFirst(kv, "=")))

\* the value of one "key=value" piece of the attribute column
AttrValue(kv) == Strip(AfterFirst(kv, "="))

HasAssign(kv) == Contains(kv, "=")

\* the dict comprehension over fields[8].split(";"): a later piece with the
\* same key replaces an earlier one
ParseAttrs(col) ==
    LET kvs == SelectSeq(Split(col, ";"), HasAssign)
        ks == [i \in DOMAIN kvs |-> AttrKey(kvs[i])]
        later(i) == \E j \in DOMAIN kvs : j > i /\ ks[j] = ks[i]
        final == {i \in DOMAIN kvs : ~later(i)}
    IN  [k \in {ks[i] : i \in final} |->
            AttrValue(kvs[CHOOSE i \in final : ks[i] = k])]

KeyId == <<"id">>
KeyParent == <<"parent">>

\* one data line as the loops read it: fields = l.rstrip().split(); lines
\* with fewer than 9 fields are skipped
ReadLine(l) ==
    LET fields == HierFields(l)
    IN  IF IsComment(l) \/ Len(fields) < 9
        THEN [kept |-> FALSE]
        ELSE [kept |-> TRUE, fields |-> fields, l |-> l]

\* fields[2].lower()
FeatureType(fields) == LowerAtom(fields[3][1])

IsTranscriptType(ft) == ft \in {"mrna", "transcript"}

\* the test of parse_proteincoding_genes on the fields of one line
IsProteinCodingGene(fields) ==
    /\ Contains(Lower(fields[9]), "protein_coding")
    /\ FeatureType(fields) = "gene"

\* the ids one line adds to genes in parse_proteincoding_genes
GeneIdsOfLine(l) ==
    LET r == ReadLine(l)
    IN  IF ~r.kept THEN {}
        ELSE IF ~IsProteinCodingGene(r.fields) THEN {}
        ELSE LET attrs == ParseAttrs(r.fields[9])
             IN  IF KeyId \in DOMAIN attrs THEN {attrs[KeyId]} ELSE {}

\* parse_proteincoding_genes: the set genes it returns
parse_proteincoding_genes(f) == UNION {GeneIdsOfLine(f[i]) : i \in DOMAIN f}

\* d[k] = v on a dict
Put(d, k, v) == [x \in DOMAIN d \cup {k} |-> IF x = k THEN v ELSE d[x]]

\* gene_to_transcripts.get(g, [])
TranscriptsOf(g2t, g) == IF g \in DOMAIN g2t THEN g2t[g] ELSE {}

EmptyScan == [g2t |-> <<>>, t2g |-> <<>>, t2cds |-> {}, gff_lines |-> <<>>]

\* ScanLine with the CDS flag set only for a transcript registered earlier
ScanLineCdsAfterTranscript(st, l, genes) ==
    LET r == ReadLine(l)
    IN  IF ~r.kept THEN st
        ELSE
        LET ft == FeatureType(r.fields)
            attrs == ParseAttrs(r.fields[9])
            kept == [st EXCEPT !.gff_lines =
                        Append(@, [fields |-> r.fields, attrs |-> attrs, l |-> l])]
        IN  IF IsTranscriptType(ft) /\ KeyParent \in DOMAIN attrs
            THEN IF attrs[KeyParent] \in genes /\ KeyId \in DOMAIN attrs
                 THEN [kept EXCEPT
                         !.g2t = Put(@, attrs[KeyParent],
                                     TranscriptsOf(@, attrs[KeyParent]) \cup {attrs[KeyId]}),
                         !.t2g = Put(@, attrs[KeyId], attrs[KeyParent])]
                 ELSE kept
            ELSE IF ft = "cds" /\ KeyParent \in DOMAIN attrs
                    /\ attrs[KeyParent] \in DOMAIN st.t2g
            THEN [kept EXCEPT !.t2cds = @ \cup {attrs[KeyParent]}]
            ELSE kept

\* ScanLine without the test that the parent is one of the selected genes
ScanLineNoGate(st, l, genes) ==
    LET r == ReadLine(l)
    IN  IF ~r.kept THEN st
        ELSE
        LET ft == FeatureType(r.fields)
            attrs == ParseAttrs(r.fields[9])
            kept == [st EXCEPT !.gff_lines =
                        Append(@, [fields |-> r.fields, attrs |-> attrs, l |-> l])]
        IN  IF IsTranscriptType(ft) /\ KeyParent \in DOMAIN attrs
            THEN IF KeyId \in DOMAIN attrs
                 THEN [kept EXCEPT
                         !.g2t = Put(@, attrs[KeyParent],
                                     TranscriptsOf(@, attrs[KeyParent]) \cup {attrs[KeyId]}),
                         !.t2g = Put(@, attrs[KeyId], attrs[KeyParent])]
                 ELSE kept
            ELSE IF ft = "cds" /\ KeyParent \in DOMAIN attrs
            THEN [kept EXCEPT !.t2cds = @ \cup {attrs[KeyParent]}]
            ELSE kept

\* one iteration of the scan loop of gene_to_children on line l; t2cds is
\* the set of keys of transcript_to_cds that were set to True, and an entry
\* of gff_lines is the tuple (fields, attrs, l)
ScanLine(st, l, genes) ==
    LET r == ReadLine(l)
    IN  IF ~r.kept THEN st
        ELSE
        LET ft == FeatureType(r.fields)
            attrs == ParseAttrs(r.fields[9])
            kept == [st EXCEPT !.gff_lines =
                        Append(@, [fields |-> r.fields, attrs |-> attrs, l |-> l])]
        IN  IF IsTranscriptType(ft) /\ KeyParent \in DOMAIN attrs
            THEN IF attrs[KeyParent] \in genes /\ KeyId \in DOMAIN attrs
                 THEN [kept EXCEPT
                         !.g2t = Put(@, attrs[KeyParent],
                                     TranscriptsOf(@, attrs[KeyParent]) \cup {attrs[KeyId]}),
                         !.t2g = Put(@, attrs[KeyId], attrs[KeyParent])]
                 ELSE kept
            ELSE IF ft = "cds" /\ KeyParent \in DOMAIN attrs
            THEN [kept EXCEPT !.t2cds = @ \cup {attrs[KeyParent]}]
            ELSE kept

\* Scan in one pass: a transcript is registered only under a gene that a
\* line before it selected
RECURSIVE ScanOnePass(_, _, _)
ScanOnePass(f, n, genes) ==
    IF n = 0 THEN EmptyScan
    ELSE ScanLine(ScanOnePass(f, n - 1, genes), f[n],
                  genes \cap parse_proteincoding_genes(SubSeq(f, 1, n - 1)))

\* the scan loop over the first n lines of the file
RECURSIVE Scan(_, _, _)
Scan(f, n, genes) ==
    IF n = 0 THEN EmptyScan ELSE ScanLine(Scan(f, n - 1, genes), f[n], genes)

EmptyClasses == [missing_transcripts |-> 0, missing_cds |-> 0, complete |-> {}]

\* ClassifyGene without the continue after a gene with no transcript
ClassifyGeneNoContinue(acc, g, st) ==
    LET transcripts == TranscriptsOf(st.g2t, g)
        first == IF transcripts = {}
                 THEN [acc EXCEPT !.missing_transcripts = @ + 1]
                 ELSE acc
    IN  IF ~(\E t \in transcripts : t \in st.t2cds)
        THEN [first EXCEPT !.missing_cds = @ + 1]
        ELSE [first EXCEPT !.complete = @ \cup {g}]

\* one iteration of the summary loop: gene g
ClassifyGene(acc, g, st) ==
    LET transcripts == TranscriptsOf(st.g2t, g)
    IN  IF transcripts = {}
        THEN [acc EXCEPT !.missing_transcripts = @ + 1]
        ELSE IF ~(\E t \in transcripts : t \in st.t2cds)
        THEN [acc EXCEPT !.missing_cds = @ + 1]
        ELSE [acc EXCEPT !.complete = @ \cup {g}]

\* the summary loop over the genes still to visit
RECURSIVE Classify(_, _)
Classify(todo, st) ==
    IF todo = {} THEN EmptyClasses
    ELSE LET g == CHOOSE x \in todo : TRUE
         IN  ClassifyGene(Classify(todo \ {g}, st), g, st)

\* whether the write loop of gene_to_children writes the entry e of gff_lines
IsWritten(e, st, genes_complete) ==
    LET ft == FeatureType(e.fields)
        attrs == e.attrs
    IN  IF ft = "gene" /\ KeyId \in DOMAIN attrs /\ attrs[KeyId] \in genes_complete
        THEN TRUE
        ELSE IF IsTranscriptType(ft) /\ KeyParent \in DOMAIN attrs
        THEN attrs[KeyParent] \in genes_complete
        ELSE IF ft = "cds" /\ KeyParent \in DOMAIN attrs
        THEN /\ attrs[KeyParent] \in DOMAIN st.t2g
             /\ st.t2g[attrs[KeyParent]] \in genes_complete
        ELSE FALSE

\* the file gene_to_children writes: the comment lines of the input, then
\* original_l of the entries of gff_lines that pass the write loop
WriteFiltered(f, st, genes_complete) ==
    LET written(e) == IsWritten(e, st, genes_complete)
        passed == SelectSeq(st.gff_lines, written)
    IN  SelectSeq(f, IsComment) \o [i \in DOMAIN passed |-> passed[i].l]

\* gene_to_children up to its summary: the root genes, the scan, the classes
Summarise(f) ==
    LET genes == parse_proteincoding_genes(f)
        st == Scan(f, Len(f), genes)
        cl == Classify(genes, st)
    IN  [genes |-> genes,
         st |-> st,
         total |-> Cardinality(genes),
         missing_transcripts |-> cl.missing_transcripts,
         missing_cds |-> cl.missing_cds,
         genes_complete |-> cl.complete]

\* gene_to_children(outfile): everything the call leaves behind; out is the
\* sequence of lines of the written file, <<>> when no file is written
gene_to_children(f, sm, outfile) ==
    [op |-> "gene_to_children",
     outfile |-> outfile,
     genes |-> sm.genes,
     g2t |-> sm.st.g2t,
     t2g |-> sm.st.t2g,
     t2cds |-> sm.st.t2cds,
     total |-> sm.total,
     missing_transcripts |-> sm.missing_transcripts,
     missing_cds |-> sm.missing_cds,
     genes_complete |-> sm.genes_complete,
     out |-> IF outfile THEN WriteFiltered(f, sm.st, sm.genes_complete) ELSE <<>>]

(***************************************************************************)
(* Input files.  A data line has its columns joined by the delimiter d;    *)
(* columns 1, 2 and 4..8 hold one word each.  A line is what iterating the *)
(* open file yields: its text with the newline that ends it.               *)
(***************************************************************************)
MkLine(d, ft, attr) ==
    <<"c", d, "s", d, ft, d, "n", d, "n", d, "n", d, "n", d, "n", d>> \o attr \o <<NL>>

\* a line that stops after column 8
ShortLine(d, ft) ==
    <<"c", d, "s", d, ft, d, "n", d, "n", d, "n", d, "n", d, "n", NL>>

CommentLine == <<"#", "w", NL>>

\* a comment that is the last line of a file with no newline at its end
LastCommentLine == <<"#", "w">>

Marker == <<"biotype", "=", "protein_coding">>

\* the lines of the files given to biotype_protein_coding
GeneG1 == MkLine(TAB, "gene", <<"ID", "=", "g1", ";">> \o Marker)
GeneG2 == MkLine(TAB, "gene", <<"ID", "=", "g2", ";">> \o Marker)
\* a marked gene whose attribute column holds a space before its ID
GeneG3Spaced ==
    MkLine(TAB, "gene", Marker \o <<";", "Name", "=", "w", SPACE, "w", ";", "ID", "=", "g3">>)
MrnaT1 == MkLine(TAB, "mRNA", <<"ID", "=", "t1", ";", "Parent", "=", "g1">>)
MrnaT2 == MkLine(TAB, "mRNA", <<"ID", "=", "t2", ";", "Parent", "=", "g2", ";">> \o Marker)
TranscriptNoId == MkLine(TAB, "transcript", <<"Parent", "=", "g1">>)
CdsT1 == MkLine(TAB, "CDS", <<"Parent", "=", "t1">>)

HierLines ==
    { GeneG1, GeneG2, GeneG3Spaced, MrnaT1, MrnaT2, TranscriptNoId, CdsT1,
      ShortLine(TAB, "gene"), CommentLine }

\* the sequences of at most n pairwise different lines drawn from the set lines
FilesOf(lines, n) ==
    UNION {{f \in [1..k -> lines] : \A i, j \in 1..k : f[i] = f[j] => i = j} : k \in 0..n}

\* the files given to biotype_protein_coding: at most n lines, the last of
\* which may be the comment that ends without a newline
HierFiles(n) ==
    FilesOf(HierLines, n) \cup {Append(f, LastCommentLine) : f \in FilesOf(HierLines, n - 1)}

NoCall == [op |-> "none"]

\* ParseGFFinfo.__init__: the defaults of separator and assigner, format
\* "Unknown", and self.lines, the fields of the lines read from the file
ParseGFFinfoInit(lines) ==
    [cls |-> "ParseGFFinfo", separator |-> ";", assigner |-> "=", format |-> "Unknown",
     lines |-> lines]

\* ReformatGFF.__init__: the three placeholders
ReformatGFFInit ==
    [cls |-> "ReformatGFF", separator |-> "None", assigner |-> "None", format |-> "None"]

(***************************************************************************)
(* The calls on biotype_protein_coding.                                    *)
(***************************************************************************)
\* no ParseGFFinfo or ReformatGFF object was constructed
NoObject == [cls |-> "none", separator |-> "None", assigner |-> "None", format |-> "None"]

InitHier ==
    /\ file \in HierFiles(MaxHierLines)
    /\ delimiter = TAB
    /\ hier = NoCall
    /\ obj = NoObject
    /\ call = NoCall

GeneToChildren ==
    \E sm \in {Summarise(file)} :
        \E outfile \in BOOLEAN :
            /\ hier' = gene_to_children(file, sm, outfile)
            /\ UNCHANGED <<file, delimiter, obj, call>>

NextHier == GeneToChildren

SpecHier == InitHier /\ [][NextHier]_vars

(***************************************************************************)
(* Properties of gene_to_children.                                         *)
(***************************************************************************)
Summarised == hier.op = "gene_to_children"

\* the lines of file f as the scan reads them: whether the line is kept,
\* its feature type and its attributes
Records(f) ==
    [i \in DOMAIN f |->
        LET r == ReadLine(f[i])
        IN  IF r.kept
            THEN [kept |-> TRUE, ft |-> FeatureType(r.fields),
                  attrs |-> ParseAttrs(r.fields[9])]
            ELSE [kept |-> FALSE, ft |-> "", attrs |-> <<>>]]

\* record r is a transcript record with an id and a parent
IsTranscriptRecord(r) ==
    /\ r.kept
    /\ IsTranscriptType(r.ft)
    /\ KeyParent \in DOMAIN r.attrs
    /\ KeyId \in DOMAIN r.attrs

\* record r is a CDS record with a parent
IsCdsRecord(r) == r.kept /\ r.ft = "cds" /\ KeyParent \in DOMAIN r.attrs

\* the ids of the transcript records that name gene g as their parent
RegisteredUnder(recs, g) ==
    {recs[i].attrs[KeyId] :
        i \in {j \in DOMAIN recs : /\ IsTranscriptRecord(recs[j])
                                   /\ recs[j].attrs[KeyParent] = g}}

\* some CDS record names t as its parent
HasCdsChild(recs, t) ==
    \E i \in DOMAIN recs : IsCdsRecord(recs[i]) /\ recs[i].attrs[KeyParent] = t

ScenarioD == <<GeneG1, MrnaT1, CdsT1>>
ScenarioE == <<GeneG2>>

\* C1: in the summary of gene_to_children the three counts add up to the
\* total, and the selected genes fall into the three classes without overlap:
\* the genes with no transcript are counted once as missing transcripts, the
\* genes with transcripts but no CDS flag once as missing CDS, and all the
\* others, and only they, are the complete genes.
C1_SummaryPartition ==
    Summarised =>
        LET none == {g \in hier.genes : TranscriptsOf(hier.g2t, g) = {}}
            nocds == {g \in hier.genes \ none :
                         TranscriptsOf(hier.g2t, g) \cap hier.t2cds = {}}
        IN  /\ Cardinality(hier.genes_complete) + hier.missing_transcripts
                   + hier.missing_cds = hier.total
            /\ hier.total = Cardinality(hier.genes)
            /\ hier.missing_transcripts = Cardinality(none)
            /\ hier.missing_cds = Cardinality(nocds)
            /\ hier.genes_complete = hier.genes \ (none \cup nocds)

\* a summary with two selected genes, one in each of the two incomplete classes
C1_Witness ==
    /\ Summarised
    /\ hier.total = 2
    /\ hier.missing_transcripts = 1
    /\ hier.missing_cds = 1

\* C5: every selected gene is classified from the records of the file:
\* missing transcript iff no transcript record names it as parent, complete
\* iff one of its transcripts is the parent of a CDS record, missing CDS
\* otherwise; scenario D gives {1, 0, 0, 1} and scenario E one gene missing
\* its transcripts and no complete gene.
C5_Classification ==
    Summarised =>
        LET recs == Records(file)
            none == {g \in hier.genes : RegisteredUnder(recs, g) = {}}
            full == {g \in hier.genes :
                        \E t \in RegisteredUnder(recs, g) : HasCdsChild(recs, t)}
            nocds == hier.genes \ (none \cup full)
        IN  /\ hier.missing_transcripts = Cardinality(none)
            /\ hier.missing_cds = Cardinality(nocds)
            /\ hier.genes_complete = full
            /\ file = ScenarioD =>
                   /\ hier.total = 1
                   /\ hier.missing_transcripts = 0
                   /\ hier.missing_cds = 0
                   /\ Cardinality(hier.genes_complete) = 1
            /\ file = ScenarioE =>
                   /\ hier.missing_transcripts = 1
                   /\ Cardinality(hier.genes_complete) = 0

\* scenario D after the call, in an order where the CDS comes first
C5_Witness ==
    /\ Summarised
    /\ file = <<CdsT1, GeneG1, MrnaT1>>
    /\ hier.genes_complete = {<<"g1">>}

\* the lines of f as the file format defines them: columns cut at the tab
Columns(l) == Split(l, TAB)

\* the ids of the gene records of f with at least 9 columns whose attribute
\* column holds the biotype marker and an id
MarkedGeneIds(f) ==
    {ParseAttrs(Columns(f[i])[9])[KeyId] :
        i \in {j \in DOMAIN f :
                 /\ ~IsComment(f[j])
                 /\ Len(Columns(f[j])) >= 9
                 /\ LowerAtom(Columns(f[j])[3][1]) = "gene"
                 /\ Contains(Columns(f[j])[9], "protein_coding")
                 /\ KeyId \in DOMAIN ParseAttrs(Columns(f[j])[9])}}

\* the transcript records whose parent is outside G and the CDS records
\* whose parent is no registered transcript
Excluded(recs) ==
    {i \in DOMAIN recs :
        \/ /\ recs[i].kept
           /\ IsTranscriptType(recs[i].ft)
           /\ KeyParent \in DOMAIN recs[i].attrs
           /\ recs[i].attrs[KeyParent] \notin hier.genes
        \/ /\ IsCdsRecord(recs[i])
           /\ recs[i].attrs[KeyParent] \notin DOMAIN hier.t2g}

\* file f without the lines at the indices in drop
Without(f, drop) ==
    LET keep(i) == i \notin drop
        idx == SelectSeq([i \in DOMAIN f |-> i], keep)
    IN  [k \in DOMAIN idx |-> f[idx[k]]]

\* C8 as stated: every data line written is a gene record whose id is a
\* complete gene, a transcript record registered under a complete gene, or a
\* CDS record whose parent is a transcript registered under a complete gene.
C8_OnlyCompleteHierarchies ==
    (Summarised /\ hier.outfile) =>
        \A k \in DOMAIN hier.out :
            LET r == Records(hier.out)[k]
            IN  \/ IsComment(hier.out[k])
                \/ /\ r.kept
                   /\ r.ft = "gene"
                   /\ KeyId \in DOMAIN r.attrs
                   /\ r.attrs[KeyId] \in hier.genes_complete
                \/ /\ IsTranscriptRecord(r)
                   /\ r.attrs[KeyParent] \in hier.genes_complete
                   /\ r.attrs[KeyId] \in TranscriptsOf(hier.g2t, r.attrs[KeyParent])
                \/ /\ IsCdsRecord(r)
                   /\ \E g \in hier.genes_complete :
                          r.attrs[KeyParent] \in TranscriptsOf(hier.g2t, g)

\* C9: a transcript id is registered under a gene only by a transcript
\* record that carries this id and names this gene, a member of G, as its
\* parent; the transcripts whose parent is outside G and the CDS records
\* whose parent is no registered transcript are not written, and the summary
\* is the one of the file without them.
C9_UnresolvedParentsDropped ==
    Summarised =>
        LET recs == Records(file)
            drop == Excluded(recs)
            rest == Summarise(Without(file, drop))
        IN  /\ \A g \in DOMAIN hier.g2t : \A t \in hier.g2t[g] :
                   /\ g \in hier.genes
                   /\ t \in RegisteredUnder(recs, g)
            /\ \A t \in DOMAIN hier.t2g : t \in TranscriptsOf(hier.g2t, hier.t2g[t])
            /\ \A i \in drop : \A k \in DOMAIN hier.out : hier.out[k] # file[i]
            /\ rest.genes = hier.genes
            /\ rest.missing_transcripts = hier.missing_transcripts
            /\ rest.missing_cds = hier.missing_cds
            /\ rest.genes_complete = hier.genes_complete

\* a file was written for a complete gene, and the input holds a transcript
\* whose parent is outside G
C9_Witness ==
    /\ Summarised
    /\ hier.outfile
    /\ hier.genes_complete # {}
    /\ \E i \in Excluded(Records(file)) : IsTranscriptType(Records(file)[i].ft)

\* C10 as stated: G holds exactly the ids of the gene records with at least
\* 9 columns whose attribute column holds the biotype marker and an id.
C10_RootSet == Summarised => hier.genes = MarkedGeneIds(file)

(***************************************************************************)
(* ParseGFFinfo (ParseGffinfo.py) and ReformatGFF (Reformat2GFF.py):       *)
(* detect_attr_format and attr.                                            *)
(***************************************************************************)

\* fields = line.rstrip().split(self.delimiter)
Fields(l, d) == Split(RStrip(l), d)

\* ParseGFFinfo.__init__: self.lines, the fields of the lines that are no
\* comment and have at least 2 fields
LoadLines(f, d) ==
    LET data(l) == ~IsComment(l)
        kept == SelectSeq(f, data)
        fields == [i \in DOMAIN kept |-> Fields(kept[i], d)]
        enough(x) == Len(x) >= 2
    IN  SelectSeq(fields, enough)

\* re.search(r'"[^"]*,[^"]*"', attrs)
CommaInsideQuotes(s) ==
    LET quotes == {m \in DOMAIN s : s[m] = QUOTE}
    IN  \E i \in quotes : \E k \in quotes :
            /\ i < k
            /\ \A m \in (i + 1)..(k - 1) : s[m] # QUOTE
            /\ \E j \in (i + 1)..(k - 1) : s[j] = ","

\* re.search(r';[^;]*,[^;]*;', attrs)
CommaBetweenSemicolons(s) ==
    LET semis == {m \in DOMAIN s : s[m] = ";"}
    IN  \E i \in semis : \E k \in semis :
            /\ i < k
            /\ \A m \in (i + 1)..(k - 1) : s[m] # ";"
            /\ \E j \in (i + 1)..(k - 1) : s[j] = ","

\* re.search(r'\w+\s+"[^"]+"', attrs)
KeyQuotedValue(s) ==
    LET quotes == {m \in DOMAIN s : s[m] = QUOTE}
    IN  \E j \in quotes : \E k \in quotes :
            /\ j + 1 < k
            /\ \A m \in (j + 1)..(k - 1) : s[m] # QUOTE
            /\ \E i \in 1..(j - 2) :
                   /\ IsWord(s[i])
                   /\ \A m \in (i + 1)..(j - 1) : IsSpace(s[m])

SubQuoted == "',' inside quoted value"
SubInside == "',' inside values with separator';'"
SubMain == "',' as main separator (PLEASE CONFIRM)"

\* "inside" in sf
MentionsInside(sf) == sf \in {SubQuoted, SubInside}

\* the locals of detect_attr_format before its loop; analysed counts the
\* records that reach the separator check
EmptyAnalysis ==
    [sep_candidates |-> {}, assign_candidates |-> {}, any_quotes |-> FALSE,
     subformats |-> {}, unknown_sep_count |-> 0, unknown_asgn_count |-> 0,
     analysed |-> 0]

\* a line the loop passes over: fewer than nine fields or an empty
\* attribute column
Skipped ==
    [skip |-> TRUE, semi |-> FALSE, comma |-> FALSE, tab |-> FALSE,
     quoted |-> FALSE, between |-> FALSE, equals |-> FALSE, gtf |-> FALSE,
     quote |-> FALSE]

\* what one iteration of the loop of detect_attr_format reads from the
\* fields f of a line: the outcome of each substring test and regex search
\* on the attribute column
RecordTests(f) ==
    IF Len(f) < 9 THEN Skipped
    ELSE
    LET attrs == Strip(f[9])
    IN  IF attrs = <<>> THEN Skipped
        ELSE
        LET equals == Contains(attrs, "=")
        IN  [skip |-> FALSE,
             semi |-> Contains(attrs, ";"),
             comma |-> Contains(attrs, ","),
             tab |-> Contains(attrs, TAB),
             quoted |-> CommaInsideQuotes(attrs),
             between |-> CommaBetweenSemicolons(attrs),
             equals |-> equals,
             gtf |-> ~equals /\ KeyQuotedValue(attrs),
             quote |-> Contains(attrs, QUOTE)]

\* AnalyseRecord without the two assignments any_quotes = True
AnalyseRecordNoQuotes(acc, t) ==
    IF t.skip THEN acc
    ELSE
    LET sep1 == IF t.semi THEN acc.sep_candidates \cup {";"} ELSE acc.sep_candidates
        main == t.comma /\ ~t.quoted /\ ";" \notin sep1
        sep2 == IF main THEN sep1 \cup {","} ELSE sep1
        sub == IF ~t.comma THEN {}
               ELSE IF t.quoted THEN {SubQuoted}
               ELSE IF ";" \in sep1
               THEN IF t.between THEN {SubInside} ELSE {}
               ELSE {SubMain}
        sep3 == IF t.tab THEN sep2 \cup {TAB} ELSE sep2
        found_sep == t.semi \/ t.comma \/ t.tab
        unknown == ~t.equals /\ ~t.gtf
    IN  [sep_candidates |-> sep3,
         assign_candidates |->
             IF t.equals THEN acc.assign_candidates \cup {"="}
             ELSE IF t.gtf THEN acc.assign_candidates \cup {SPACE}
             ELSE acc.assign_candidates,
         any_quotes |-> acc.any_quotes,
         subformats |-> acc.subformats \cup sub,
         unknown_sep_count |-> acc.unknown_sep_count + (IF found_sep THEN 0 ELSE 1),
         unknown_asgn_count |-> acc.unknown_asgn_count + (IF unknown THEN 1 ELSE 0),
         analysed |-> acc.analysed + 1]

\* one iteration of the loop of detect_attr_format, on the tests t of a line
AnalyseRecord(acc, t) ==
    IF t.skip THEN acc
    ELSE
    LET sep1 == IF t.semi THEN acc.sep_candidates \cup {";"} ELSE acc.sep_candidates
        main == t.comma /\ ~t.quoted /\ ";" \notin sep1
        sep2 == IF main THEN sep1 \cup {","} ELSE sep1
        sub == IF ~t.comma THEN {}
               ELSE IF t.quoted THEN {SubQuoted}
               ELSE IF ";" \in sep1
               THEN IF t.between THEN {SubInside} ELSE {}
               ELSE {SubMain}
        sep3 == IF t.tab THEN sep2 \cup {TAB} ELSE sep2
        found_sep == t.semi \/ t.comma \/ t.tab
        unknown == ~t.equals /\ ~t.gtf
    IN  [sep_candidates |-> sep3,
         assign_candidates |->
             IF t.equals THEN acc.assign_candidates \cup {"="}
             ELSE IF t.gtf THEN acc.assign_candidates \cup {SPACE}
             ELSE acc.assign_candidates,
         any_quotes |-> acc.any_quotes \/ t.gtf \/ t.quote,
         subformats |-> acc.subformats \cup sub,
         unknown_sep_count |-> acc.unknown_sep_count + (IF found_sep THEN 0 ELSE 1),
         unknown_asgn_count |-> acc.unknown_asgn_count + (IF unknown THEN 1 ELSE 0),
         analysed |-> acc.analysed + 1]

\* the tests of every record of recs
Tests(recs) == [i \in DOMAIN recs |-> RecordTests(recs[i])]

\* the loop of detect_attr_format over the first n of the records whose
\* tests are recs
RECURSIVE Analyse(_, _)
Analyse(recs, n) ==
    IF n = 0 THEN EmptyAnalysis
    ELSE LET acc == Analyse(recs, n - 1)
         IN  AnalyseRecord(acc, recs[n])

\* ", and/or ".join(sorted(assign_candidates))
JoinAssigners(ac) ==
    CASE ac = {"="} -> "="
      [] ac = {SPACE} -> SPACE
      [] OTHER -> " , and/or ="

\* ", and/or ".join(sorted(sep_candidates))
JoinSeparators(sc) ==
    CASE sc = {TAB} -> TAB
      [] sc = {","} -> ","
      [] sc = {";"} -> ";"
      [] sc = {TAB, ","} -> "\t, and/or ,"
      [] sc = {TAB, ";"} -> "\t, and/or ;"
      [] sc = {",", ";"} -> ",, and/or ;"
      [] OTHER -> "\t, and/or ,, and/or ;"

\* ResolveAssigner with the first test reduced to "=" in assign_candidates
ResolveAssignerEqualsFirst(a, old) ==
    IF "=" \in a.assign_candidates
    THEN [format |-> "GFF3-like", assigner |-> "="]
    ELSE IF SPACE \in a.assign_candidates
    THEN IF a.any_quotes
         THEN [format |-> "GTF-like", assigner |-> SPACE]
         ELSE old
    ELSE [format |-> "Unknown",
          assigner |-> IF a.assign_candidates # {}
                       THEN JoinAssigners(a.assign_candidates) ELSE "?"]

\* ResolveAssigner with the last branch leaving "=" as the assigner
ResolveAssignerUnknownKeepsEquals(a, old) ==
    IF "=" \in a.assign_candidates /\ SPACE \notin a.assign_candidates
    THEN [format |-> "GFF3-like", assigner |-> "="]
    ELSE IF SPACE \in a.assign_candidates
    THEN IF a.any_quotes
         THEN [format |-> "GTF-like", assigner |-> SPACE]
         ELSE old
    ELSE [format |-> "Unknown", assigner |-> "="]

\* the format and assigner branches; where no branch assigns, the values
\* keep what they held before: old
ResolveAssigner(a, old) ==
    IF "=" \in a.assign_candidates /\ SPACE \notin a.assign_candidates
    THEN [format |-> "GFF3-like", assigner |-> "="]
    ELSE IF SPACE \in a.assign_candidates
    THEN IF a.any_quotes
         THEN [format |-> "GTF-like", assigner |-> SPACE]
         ELSE old
    ELSE [format |-> "Unknown",
          assigner |-> IF a.assign_candidates # {}
                       THEN JoinAssigners(a.assign_candidates) ELSE "?"]

\* ResolveSeparator with the "," branch tested before the ";" branch
ResolveSeparatorCommaFirst(a) ==
    IF "," \in a.sep_candidates
    THEN IF \E sf \in a.subformats : MentionsInside(sf) THEN ";" ELSE ","
    ELSE IF ";" \in a.sep_candidates THEN ";"
    ELSE IF TAB \in a.sep_candidates THEN TAB
    ELSE IF a.sep_candidates # {} THEN JoinSeparators(a.sep_candidates) ELSE "?"

\* ResolveSeparator without the test on the subformats
ResolveSeparatorNoOverride(a) ==
    IF ";" \in a.sep_candidates THEN ";"
    ELSE IF "," \in a.sep_candidates THEN ","
    ELSE IF TAB \in a.sep_candidates THEN TAB
    ELSE IF a.sep_candidates # {} THEN JoinSeparators(a.sep_candidates) ELSE "?"

\* the separator branches
ResolveSeparator(a) ==
    IF ";" \in a.sep_candidates THEN ";"
    ELSE IF "," \in a.sep_candidates
    THEN IF \E sf \in a.subformats : MentionsInside(sf) THEN ";" ELSE ","
    ELSE IF TAB \in a.sep_candidates THEN TAB
    ELSE IF a.sep_candidates # {} THEN JoinSeparators(a.sep_candidates) ELSE "?"

\* format_likely, assigner_likely and separator_likely of one detection;
\* old is what format and assigner hold where no branch assigns them
Resolve(a, old) ==
    LET fa == ResolveAssigner(a, old)
    IN  [separator |-> ResolveSeparator(a), assigner |-> fa.assigner, format |-> fa.format]

\* in ParseGFFinfo format_likely and assigner_likely are locals, unbound
\* where no branch assigns them
Unbound == [format |-> "unbound", assigner |-> "unbound"]

\* in ReformatGFF the branches assign self.format and self.assigner
Stored(o) == [format |-> o.format, assigner |-> o.assigner]

Dialect(o) == [separator |-> o.separator, assigner |-> o.assigner, format |-> o.format]

\* the sequences of k different indices of the sequence s: random.sample
Samples(s, k) ==
    {p \in [1..k -> DOMAIN s] : \A i, j \in 1..k : p[i] = p[j] => i = j}

Min(a, b) == IF a <= b THEN a ELSE b

\* the fields of the lines ReformatGFF.detect_attr_format reads: the lines
\* with enumerate index i <= max_lines that are no comment
ReformatSample(f, d, max_lines) ==
    LET head == SubSeq(f, 1, Min(Len(f), max_lines + 1))
        data(l) == ~IsComment(l)
        kept == SelectSeq(head, data)
    IN  [i \in DOMAIN kept |-> Fields(kept[i], d)]

\* what a call of detect_attr_format leaves behind: its arguments, the set
\* of the records it went through (their indices), the aggregated locals,
\* the resolved values and result["Format"]
Detected(max_lines, apply, sample, a, resolved, o) ==
    [op |-> "detect_attr_format", max_lines |-> max_lines, apply |-> apply,
     returned |-> "result", sample |-> sample, analysis |-> a,
     resolved |-> resolved, report_format |-> o.format]

\* ParseGFFinfo.detect_attr_format returns None when no line was loaded
NothingDetected(max_lines, apply) ==
    [op |-> "detect_attr_format", max_lines |-> max_lines, apply |-> apply,
     returned |-> "None", sample |-> {}, analysis |-> EmptyAnalysis,
     resolved |-> Dialect(NoObject), report_format |-> "None"]

\* the records at the indices p[1], p[2], ... of recs
Pick(recs, p) == [i \in DOMAIN p |-> recs[p[i]]]

\* ParseGFFinfo.attr(featuretype): the set keys
attr(lines, featuretype, separator, assigner) ==
    LET wanted == {i \in DOMAIN lines :
                     /\ Len(lines[i]) >= 9
                     /\ Lower(lines[i][3]) = <<LowerAtom(featuretype)>>}
        key(t) == IF Contains(t, assigner)
                  THEN Strip(BeforeFirst(t, assigner))
                  ELSE t
        keysOf(i) ==
            LET pieces == Split(lines[i][9], separator)
                stripped == [n \in DOMAIN pieces |-> Strip(pieces[n])]
            IN  {key(stripped[n]) : n \in {m \in DOMAIN stripped : stripped[m] # <<>>}}
    IN  UNION {keysOf(i) : i \in wanted}

(***************************************************************************)
(* Input files of ParseGFFinfo and ReformatGFF.                            *)
(***************************************************************************)
\* ID=gene1;Name=foo
ScenarioALine == MkLine(TAB, "gene", <<"ID", "=", "gene1", ";", "Name", "=", "foo">>)
\* gene_id "G1"; transcript_id "T1";
ScenarioBLine ==
    MkLine(TAB, "gene", <<"gene_id", SPACE, QUOTE, "G1", QUOTE, ";", SPACE,
                          "transcript_id", SPACE, QUOTE, "T1", QUOTE, ";">>)
\* a=1,b=2
CommaMainLine == MkLine(TAB, "gene", <<"a", "=", "1", ",", "b", "=", "2">>)
\* x "a,b"
CommaQuotedLine == MkLine(TAB, "gene", <<"x", SPACE, QUOTE, "a", ",", "b", QUOTE>>)
\* a=1;b=2,3;c=4
CommaInsideLine ==
    MkLine(TAB, "gene", <<"a", "=", "1", ";", "b", "=", "2", ",", "3", ";", "c", "=", "4">>)
\* w?w
QuestionLine == MkLine(TAB, "gene", <<"w", "?", "w">>)
\* columns joined by "|", a tab inside the attribute column: a=1<tab>b=2
PipeTabLine == MkLine("|", "gene", <<"a", "=", "1", TAB, "b", "=", "2">>)
\* columns joined by "|", an empty attribute column
PipeEmptyLine == MkLine("|", "gene", <<>>)
PipeScenarioALine == MkLine("|", "gene", <<"ID", "=", "gene1", ";", "Name", "=", "foo">>)

\* the lines of the files read with delimiter d
DetectLines(d) ==
    IF d = TAB
    THEN { ScenarioALine, ScenarioBLine, CommaMainLine, CommaQuotedLine,
           CommaInsideLine, QuestionLine, ShortLine(TAB, "gene"), CommentLine }
    ELSE { PipeTabLine, PipeEmptyLine, PipeScenarioALine, ScenarioALine, CommentLine }

FeatureTypes == {"gene", "CDS"}

(***************************************************************************)
(* The calls on a ParseGFFinfo or a ReformatGFF object.                    *)
(***************************************************************************)
InitDetect ==
    /\ delimiter \in {TAB, "|"}
    /\ file \in FilesOf(DetectLines(delimiter), MaxDetectLines)
    /\ hier = NoCall
    /\ obj \in {ParseGFFinfoInit(LoadLines(file, delimiter)), ReformatGFFInit}
    /\ call = NoCall

ParseDetect ==
    /\ obj.cls = "ParseGFFinfo"
    /\ LET lines == obj.lines
           tests == Tests(lines)
       IN  \E max_lines \in 0..MaxSampleSize :
             IF lines = <<>>
             THEN \E apply \in BOOLEAN :
                     /\ call' = NothingDetected(max_lines, apply)
                     /\ obj' = obj
             ELSE \E p \in Samples(lines, Min(max_lines, Len(lines))) :
                   \E a \in {Analyse(Pick(tests, p), Len(p))} :
                   \E r \in {Resolve(a, Unbound)} :
                     LET sample == {p[i] : i \in DOMAIN p}
                     IN  \E apply \in BOOLEAN :
                           LET o == IF apply
                                    THEN [obj EXCEPT !.format = r.format,
                                                     !.assigner = r.assigner,
                                                     !.separator = r.separator]
                                    ELSE obj
                           IN  /\ obj' = o
                               /\ call' = Detected(max_lines, apply, sample, a, r, o)
    /\ UNCHANGED <<file, delimiter, hier>>

ReformatDetect ==
    /\ obj.cls = "ReformatGFF"
    /\ \E max_lines \in 0..MaxSampleSize :
          \E recs \in {ReformatSample(file, delimiter, max_lines)} :
          \E a \in {Analyse(Tests(recs), Len(recs))} :
          \E r \in {Resolve(a, Stored(obj))} :
          LET o == [obj EXCEPT !.format = r.format,
                               !.assigner = r.assigner,
                               !.separator = r.separator]
          IN  \E apply \in BOOLEAN :
                /\ obj' = o
                /\ call' = Detected(max_lines, apply, DOMAIN recs, a, r, o)
    /\ UNCHANGED <<file, delimiter, hier>>

Attr ==
    /\ obj.cls = "ParseGFFinfo"
    /\ LET lines == obj.lines
       IN  \E featuretype \in FeatureTypes :
             call' = [op |-> "attr", featuretype |-> featuretype, returned |-> "keys",
                      keys |-> attr(lines, featuretype, obj.separator, obj.assigner)]
    /\ UNCHANGED <<file, delimiter, hier, obj>>

NextDetect == ParseDetect \/ ReformatDetect \/ Attr

SpecDetect == InitDetect /\ [][NextDetect]_vars

(***************************************************************************)
(* Properties of detect_attr_format and attr.                              *)
(***************************************************************************)
\* a call of detect_attr_format that went through its resolution
Resolved(c) == c.op = "detect_attr_format" /\ c.returned = "result"

\* the records a detection of the object o draws its sample from: self.lines
\* of a ParseGFFinfo, the lines a ReformatGFF reads from the file
DetectionRecords(o, f, d, max_lines) ==
    IF o.cls = "ParseGFFinfo" THEN o.lines ELSE ReformatSample(f, d, max_lines)

\* what format and assigner hold before the resolution branches run
OldOf(o) == IF o.cls = "ParseGFFinfo" THEN Unbound ELSE Stored(o)

\* every order in which the records with indices in S can be processed
Orders(S) ==
    {p \in [1..Cardinality(S) -> S] : \A i, j \in 1..Cardinality(S) : p[i] = p[j] => i = j}

\* the attribute columns of the records the last detection went through
SampledAttrs ==
    LET recs == DetectionRecords(obj, file, delimiter, call.max_lines)
    IN  {IF Len(recs[i]) >= 9 THEN recs[i][9] ELSE <<"no column 9">> : i \in call.sample}

ScenarioAAttrs == <<"ID", "=", "gene1", ";", "Name", "=", "foo">>

ScenarioBAttrs ==
    <<"gene_id", SPACE, QUOTE, "G1", QUOTE, ";", SPACE,
      "transcript_id", SPACE, QUOTE, "T1", QUOTE, ";">>

\* C2: whatever the order in which a detection processes the records of its
\* sample, it resolves the separator, assigner and format that the call
\* resolved.
C2_OrderInvariant ==
    [][Resolved(call') =>
         \E tests \in {Tests(DetectionRecords(obj, file, delimiter, call'.max_lines))} :
            \A p \in Orders(call'.sample) :
               Resolve(Analyse(Pick(tests, p), Len(p)), OldOf(obj)) = call'.resolved]_vars

\* a detection over two records whose separator candidates depend on the
\* order: "," is recorded only when "a=1,b=2" comes before the ";" record
C2_Witness ==
    /\ Resolved(call)
    /\ Cardinality(call.sample) = 2
    /\ SampledAttrs = {ScenarioAAttrs, <<"a", "=", "1", ",", "b", "=", "2">>}
    /\ call.resolved.separator = ";"

\* C3 as stated: a detection called with apply = False leaves the stored
\* separator, assigner and format as they were, in both classes; one called
\* with apply = True leaves them equal to the values it resolved.
C3_CommitFrame ==
    [][call'.op = "detect_attr_format" =>
         IF call'.apply /\ call'.returned = "result"
         THEN Dialect(obj') = call'.resolved
         ELSE Dialect(obj') = Dialect(obj)]_vars

\* the separators and assigners the attribute column can be parsed with
UsableSeparators == {";", ",", TAB}
UsableAssigners == {"=", SPACE}

\* C4 as stated: once the stored separator or assigner is a diagnostic
\* string, a call of attr fails with a configuration error.
C4_UnknownFailsFast ==
    (call.op = "attr" /\ (obj.separator \notin UsableSeparators
                            \/ obj.assigner \notin UsableAssigners))
        => call.returned = "ConfigurationError"

\* C6: "=" seen without the space assigner resolves GFF3-like with "=";
\* the space assigner seen with quoting resolves GTF-like with " " and
\* quoting present; everything else resolves Unknown with an assigner that
\* is neither "=" nor " ".  A sample of records that all read
\* gene_id "G1"; transcript_id "T1"; resolves GTF-like, " ", quoting present.
C6_FormatAssigner ==
    Resolved(call) =>
        LET ac == call.analysis.assign_candidates
            quotes == call.analysis.any_quotes
            r == call.resolved
        IN  /\ ("=" \in ac /\ SPACE \notin ac)
                   => (r.format = "GFF3-like" /\ r.assigner = "=")
            /\ (SPACE \in ac /\ quotes)
                   => (r.format = "GTF-like" /\ r.assigner = SPACE)
            /\ (~("=" \in ac /\ SPACE \notin ac) /\ ~(SPACE \in ac /\ quotes))
                   => (r.format = "Unknown" /\ r.assigner \notin {"=", SPACE})
            /\ SampledAttrs = {ScenarioBAttrs}
                   => (r.format = "GTF-like" /\ r.assigner = SPACE /\ quotes)

\* scenario B has been detected
C6_Witness ==
    /\ Resolved(call)
    /\ SampledAttrs = {ScenarioBAttrs}
    /\ call.resolved.format = "GTF-like"
    /\ call.analysis.any_quotes

\* C7: ";" is resolved whenever it is a candidate; else "," when it is a
\* candidate, unless a subformat shows the comma inside a quoted value or
\* inside a ";"-delimited value, which resolves ";"; else tab when it is a
\* candidate; else a diagnostic string.  A sample that is the one line
\* ID=gene1;Name=foo resolves ";", "=", GFF3-like.
C7_Separator ==
    Resolved(call) =>
        LET sc == call.analysis.sep_candidates
            sf == call.analysis.subformats
            r == call.resolved
        IN  /\ ";" \in sc => r.separator = ";"
            /\ (";" \notin sc /\ "," \in sc)
                   => r.separator = (IF sf \cap {SubQuoted, SubInside} # {} THEN ";" ELSE ",")
            /\ (";" \notin sc /\ "," \notin sc /\ TAB \in sc) => r.separator = TAB
            /\ sc \cap UsableSeparators = {} => r.separator \notin UsableSeparators
            /\ (SampledAttrs = {ScenarioAAttrs} /\ Cardinality(call.sample) = 1)
                   => r = [separator |-> ";", assigner |-> "=", format |-> "GFF3-like"]

\* a detection where "," is a candidate, ";" is not, and a comma inside a
\* quoted value overrides the separator to ";"
C7_Witness ==
    /\ Resolved(call)
    /\ call.analysis.sep_candidates = {","}
    /\ SubQuoted \in call.analysis.subformats
    /\ call.resolved.separator = ";"

\* the last call was a detection that wrote what it resolved
Committed == Resolved(call) /\ call.apply

\* C11: after a detection that commits, a stored separator and a stored
\* assigner that are both parsing tokens differ, and a stored format of
\* Unknown comes with an assigner that is no parsing token.
C11_StoredDialect ==
    Committed =>
        /\ (obj.separator \in UsableSeparators /\ obj.assigner \in UsableAssigners)
               => obj.separator # obj.assigner
        /\ obj.format = "Unknown" => obj.assigner \notin UsableAssigners

\* a committed detection that ended in Unknown: the stored assigner is "?"
C11_Witness ==
    /\ Committed
    /\ obj.format = "Unknown"
    /\ obj.assigner = "?"

(***************************************************************************)
(* Order of the lines of the file given to gene_to_children.               *)
(***************************************************************************)
\* the file f with its lines i and i + 1 exchanged
SwapAdjacent(f, i) ==
    [k \in DOMAIN f |-> IF k = i THEN f[i + 1] ELSE IF k = i + 1 THEN f[i] ELSE f[k]]

\* the four numbers of the summary, and the genes found complete
SummaryOf(sm) ==
    [total |-> sm.total, missing_transcripts |-> sm.missing_transcripts,
     missing_cds |-> sm.missing_cds, complete |-> Cardinality(sm.genes_complete),
     genes_complete |-> sm.genes_complete]

\* line l ends with its newline
Terminated(l) == l # <<>> /\ l[Len(l)] = NL

\* C12: the summary of a file is the summary of the same lines in any other
\* order.  Every order of the lines is a file of its own here, and each is
\* compared with the orders one exchange of neighbouring lines away, which
\* links every order to every other; a last line without a newline stays last.
C12_SummaryOrderIndependent ==
    Summarised =>
        \A i \in 1..(Len(file) - 1) :
            Terminated(file[i + 1]) =>
                SummaryOf(Summarise(SwapAdjacent(file, i))) = SummaryOf(hier)

\* a complete gene whose transcript and CDS both come before it in the file
C12_Witness ==
    /\ Summarised
    /\ file = <<CdsT1, MrnaT1, GeneG1>>
    /\ hier.genes_complete = {<<"g1">>}
    /\ hier.total = 1

(***************************************************************************)
(* The file gene_to_children writes, read back line by line.               *)
(***************************************************************************)
\* the text made of the strings of ws, one after the other
RECURSIVE Concat(_)
Concat(ws) == IF ws = <<>> THEN <<>> ELSE Head(ws) \o Concat(Tail(ws))

\* the lines of a text, each with the newline that ends it; a text that
\* does not end with a newline has a last line without one
LinesOf(text) ==
    LET ps == Pieces(text, {NL}, 1, 1)
        n == Len(ps)
        whole == [i \in 1..(n - 1) |-> Append(ps[i], NL)]
    IN  IF ps[n] = <<>> THEN whole ELSE Append(whole, ps[n])

NotComment(l) == ~IsComment(l)

\* a is b with some of its elements left out
RECURSIVE IsSubsequence(_, _)
IsSubsequence(a, b) ==
    IF a = <<>> THEN TRUE
    ELSE IF b = <<>> THEN FALSE
    ELSE IF Head(a) = Head(b) THEN IsSubsequence(Tail(a), Tail(b))
    ELSE IsSubsequence(a, Tail(b))

\* C13 as stated: the written file begins with all the comment lines of the
\* input; the lines after them are data lines of the input, each at most
\* once, with their text unchanged and in the order of the input.
C13_CommentsThenSubsequence ==
    (Summarised /\ hier.outfile) =>
        LET lines == LinesOf(Concat(hier.out))
            comments == SelectSeq(file, IsComment)
            n == Len(comments)
        IN  /\ Len(lines) >= n
            /\ SubSeq(lines, 1, n) = comments
            /\ IsSubsequence(SubSeq(lines, n + 1, Len(lines)), SelectSeq(file, NotComment))

(***************************************************************************)
(* More properties of detect_attr_format.                                  *)
(***************************************************************************)
\* the candidate sets, subformats, quoting flag and unknown counters of an
\* aggregation
Aggregate(a) ==
    [sep_candidates |-> a.sep_candidates, assign_candidates |-> a.assign_candidates,
     subformats |-> a.subformats, any_quotes |-> a.any_quotes,
     unknown_sep_count |-> a.unknown_sep_count,
     unknown_asgn_count |-> a.unknown_asgn_count]

\* C14 as stated: whatever the order in which the sampled records are
\* processed, the loop ends with the candidate sets, subformats, quoting
\* flag and unknown counters that the call reported.
C14_AggregationOrderIndependent ==
    Resolved(call) =>
        LET tests == Tests(DetectionRecords(obj, file, delimiter, call.max_lines))
        IN  \A p \in Orders(call.sample) :
               Aggregate(Analyse(Pick(tests, p), Len(p))) = Aggregate(call.analysis)

\* C15 as stated: a detection called with max_lines analyses at most
\* max_lines records, in both classes.  The records counted are those with
\* at least nine fields and an attribute column that is not empty.
C15_SampleSizeBound ==
    Resolved(call) => call.analysis.analysed <= call.max_lines

\* C16 as stated: the format in the report of a detection is the format this
\* call resolved, whether or not the call was to store it.
C16_ReportFormat ==
    Resolved(call) => call.report_format = call.resolved.format

Formats == {"GFF3-like", "GTF-like", "Unknown"}

\* C17: in every detection that reaches its resolution, the space assigner
\* among the candidates comes with the quoting flag; the resolved format is
\* one of GFF3-like, GTF-like and Unknown; the resolved assigner is one of
\* this call's candidates, or "?" when there is none; and nothing resolved
\* depends on what format and assigner held before the call.
C17_ResolutionTotal ==
    Resolved(call) =>
        LET a == call.analysis
            r == call.resolved
        IN  /\ SPACE \in a.assign_candidates => a.any_quotes
            /\ r.format \in Formats
            /\ r.assigner \in a.assign_candidates
                  \/ (a.assign_candidates = {} /\ r.assigner = "?")
            /\ Resolve(a, Unbound) = r

\* a detection that saw both "=" and the space assigner
C17_Witness ==
    /\ Resolved(call)
    /\ call.analysis.assign_candidates = {"=", SPACE}
    /\ call.analysis.any_quotes
    /\ call.resolved.format = "GTF-like"

====
